---- MODULE Spec2Model ----
(***************************************************************************)
(* Model of eff.go: SDLCanvas.Run, SDLCanvas.AddDrawable,                  *)
(* SDLCanvas.DrawPoints and the size accessors, together with the          *)
(* sdl.CallQueue channel and the goroutine that receives closures from it  *)
(* and runs them on the SDL thread.                                        *)
(*                                                                         *)
(* Two processes: the goroutine that calls Run (its position is pc), and   *)
(* the call-queue executor (cur is the closure it has received and is      *)
(* running).  A send on the channel returns as soon as the channel has     *)
(* taken the closure; nothing in eff.go waits for the closure to run.      *)
(*                                                                         *)
(* Spec: a caller that registers drawables and calls Run, under every      *)
(* event the window system delivers.  FairSpec: Spec with both goroutines  *)
(* scheduled.  SizedSpec: the caller also sets the canvas size before Run; *)
(* the events delivered are those that end the loop.                       *)
(***************************************************************************)
EXTENDS Integers, Sequences, FiniteSets, TLC

\* ---------------------------------------------------------------- bounds
MaxDrawables == 2
MaxFrames == 2
MaxEvents == 2
\* largest buffer size of the sdl.CallQueue channel covered (0 = unbuffered)
QueueCap == 1

\* ------------------------------------------------------------- constants
frameRate == 90
frameTime == 1000 \div frameRate

\* ------------------------------------------------------ conversions (Go)
\* faulty variant of uint8: saturates instead of keeping the low 8 bits
uint8Saturating(n) == IF n < 0 THEN 0 ELSE IF n > 255 THEN 255 ELSE n
\* uint8(x) of an int: the low 8 bits
uint8(n) == n % 256
\* the integers of the model are themselves 32-bit signed, the range on which
\* Go's int32(n) keeps n
int32(n) == n

\* ------------------------------------------------------------- uint32
\* a uint32 is kept as its two 16-bit halves, value = hi * 65536 + lo
Half == 65536
U32(n) == [hi |-> (n \div Half) % Half, lo |-> n % Half]
\* a + b mod 2^32
U32Add(a, b) ==
    [hi |-> (a.hi + b.hi + ((a.lo + b.lo) \div Half)) % Half,
     lo |-> (a.lo + b.lo) % Half]
\* a - b mod 2^32
U32Sub(a, b) ==
    [hi |-> (a.hi - b.hi - (IF a.lo < b.lo THEN 1 ELSE 0)) % Half,
     lo |-> (a.lo - b.lo) % Half]
U32Less(a, b) == a.hi < b.hi \/ (a.hi = b.hi /\ a.lo < b.lo)

\* ------------------------------------------------ environment and inputs
\* the drawable objects a caller registers; what each one's callbacks do
DrawableIds == {"a", "b"}
PointsA == <<[X |-> 1, Y |-> 2], [X |-> 640, Y |-> -1]>>
ColorA == [R |-> 255, G |-> 0, B |-> 256, A |-> -1]
ColorB == [R |-> 0, G |-> 300, B |-> 17, A |-> 255]
NoPoints == << >>
NoArgs == [points |-> NoPoints, color |-> [R |-> 0, G |-> 0, B |-> 0, A |-> 0]]
\* the DrawPoints call (if any) a drawable makes from a callback
Issues(d, cb) ==
    IF d = "a" /\ cb = "Draw" THEN <<[points |-> PointsA, color |-> ColorA]>>
    ELSE IF d = "b" /\ cb = "Update" THEN <<[points |-> NoPoints, color |-> ColorB]>>
    ELSE <<>>

\* canvas sizes a caller sets
Widths == {640}
Heights == {480}
\* events the window system can deliver
EventKinds == {"Quit", "KeyUpQ", "KeyUpF", "KeyUpOther"}
\* time that can pass between two readings of the tick counter
TickSteps == {0, 4, 11}
\* tick counter values at the moment Run is called: 6 ms before it wraps
StartTicks == {[hi |-> Half - 1, lo |-> Half - 6]}

VARIABLES
    width,          \* sdlCanvas.width
    height,         \* sdlCanvas.height
    registered,     \* history: the arguments of the AddDrawable calls, in order
    drawables,      \* sdlCanvas.drawables
    window,         \* sdlCanvas.window: "nil", "live", "destroyed"
    renderer,       \* sdlCanvas.renderer: "nil", "live", "destroyed"
    err,            \* Run's err: "nil", "win", "ren"
    running,        \* Run's running
    fullscreen,     \* Run's fullscreen
    lastFrameTime,  \* Run's lastFrameTime
    pc,             \* position of the goroutine inside Run
    di,             \* index of the range loops over drawables
    frame,          \* number of loop iterations entered
    ret,            \* value returned by Run, -1 before
    cap,            \* buffer size of sdl.CallQueue
    queue,          \* closures buffered in sdl.CallQueue
    cur,            \* closure the executor has received and is running
    events,         \* the backend's pending event queue
    posted,         \* number of events delivered so far
    ticks,          \* the backend's tick counter (uint32 ms, as halves)
    winFullscreen,  \* the window's fullscreen state in the backend
    submitted,      \* history: closures sent on sdl.CallQueue, in order
    executed,       \* history: number of closures the executor has run
    lastRun,        \* history: backend calls of the closure run last, in order
    quitFrame,      \* history: frame of the first poll closure that saw a quit
    calls           \* history: Drawable callbacks invoked, in order

vars == <<width, height, registered, drawables, window, renderer, err,
          running, fullscreen, lastFrameTime, pc, di, frame, ret, cap, queue,
          cur, events, posted, ticks, winFullscreen, submitted, executed,
          lastRun, quitFrame, calls>>

NoClosure == [kind |-> "none", seq |-> 0, frame |-> 0, args |-> NoArgs]

Closure(k, a) == [kind |-> k, seq |-> Len(submitted) + 1, frame |-> frame, args |-> a]

Cmd(c, name, a) == [cmd |-> name, seq |-> c.seq, frame |-> c.frame, arg |-> a]

\* ------------------------------------------------------- sdl.CallQueue
\* `sdl.CallQueue <- f`: returns once the channel has taken f
CanSend == (cur = NoClosure /\ queue = <<>>) \/ Len(queue) < cap

Send(c) ==
    /\ CanSend
    /\ IF cur = NoClosure /\ queue = <<>>
          THEN cur' = c /\ queue' = queue
          ELSE queue' = Append(queue, c) /\ cur' = cur
    /\ submitted' = Append(submitted, c)

\* the executor takes the next closure out of the channel's buffer
Receive ==
    /\ cur = NoClosure
    /\ queue # <<>>
    /\ cur' = Head(queue)
    /\ queue' = Tail(queue)
    /\ UNCHANGED <<width, height, registered, drawables, window, renderer,
                   err, running, fullscreen, lastFrameTime, pc, di, frame,
                   ret, cap, events, posted, ticks, winFullscreen, submitted,
                   executed, lastRun, quitFrame, calls>>

\* ------------------------------------------------------- canvas size
\* what the accessors of the canvas size leave alone
sizeFrame == <<registered, drawables, window, renderer, err, running,
               fullscreen, lastFrameTime, pc, di, frame, ret, cap, queue, cur,
               events, posted, ticks, winFullscreen, submitted, executed,
               lastRun, quitFrame, calls>>

\* eff.go 58-60; "must be called prior to run"
SetWidth(w) ==
    /\ pc = "start"
    /\ width' = w
    /\ UNCHANGED height
    /\ UNCHANGED sizeFrame

\* eff.go 63-65
GetWidth == width

\* eff.go 68-70; "must be called prior to run"
SetHeight(h) ==
    /\ pc = "start"
    /\ height' = h
    /\ UNCHANGED width
    /\ UNCHANGED sizeFrame

\* eff.go 73-75
GetHeight == height

\* ------------------------------------------------- closures (executor)
execFrame == <<width, height, registered, drawables, pc, di, frame, ret, cap,
               queue, submitted, calls>>

SeesQuit(evs) == \E k \in 1..Len(evs) : evs[k] \in {"Quit", "KeyUpQ"}

\* eff.go 86-93
ExecCreateWindow ==
    /\ cur.kind = "CreateWindow"
    /\ \E ok \in BOOLEAN :
          /\ window' = IF ok THEN "live" ELSE "nil"
          /\ err' = IF ok THEN "nil" ELSE "win"
          /\ lastRun' = <<Cmd(cur, "CreateWindow",
                              [w |-> GetWidth, h |-> GetHeight, ok |-> ok])>>
    /\ cur' = NoClosure
    /\ executed' = executed + 1
    /\ UNCHANGED <<renderer, running, fullscreen, lastFrameTime, events,
                   posted, ticks, winFullscreen>>
    /\ UNCHANGED <<execFrame, quitFrame>>

\* eff.go 106-110; the backend cannot attach a renderer to a missing window
ExecCreateRenderer ==
    /\ cur.kind = "CreateRenderer"
    /\ \E ok \in (IF window = "live" THEN BOOLEAN ELSE {FALSE}) :
          /\ renderer' = IF ok THEN "live" ELSE "nil"
          /\ err' = IF ok THEN "nil" ELSE "ren"
          /\ lastRun' = <<Cmd(cur, "CreateRenderer", ok)>>
    /\ cur' = NoClosure
    /\ executed' = executed + 1
    /\ UNCHANGED <<window, running, fullscreen, lastFrameTime, events, posted,
                   ticks, winFullscreen>>
    /\ UNCHANGED <<execFrame, quitFrame>>

\* eff.go 101
ExecDestroyWindow ==
    /\ cur.kind = "DestroyWindow"
    /\ window' = IF window = "live" THEN "destroyed" ELSE window
    /\ lastRun' = <<Cmd(cur, "DestroyWindow", window)>>
    /\ cur' = NoClosure
    /\ executed' = executed + 1
    /\ UNCHANGED <<renderer, err, running, fullscreen, lastFrameTime, events,
                   posted, ticks, winFullscreen>>
    /\ UNCHANGED <<execFrame, quitFrame>>

\* eff.go 118
ExecDestroyRenderer ==
    /\ cur.kind = "DestroyRenderer"
    /\ renderer' = IF renderer = "live" THEN "destroyed" ELSE renderer
    /\ lastRun' = <<Cmd(cur, "DestroyRenderer", renderer)>>
    /\ cur' = NoClosure
    /\ executed' = executed + 1
    /\ UNCHANGED <<window, err, running, fullscreen, lastFrameTime, events,
                   posted, ticks, winFullscreen>>
    /\ UNCHANGED <<execFrame, quitFrame>>

\* eff.go 123
ExecClear ==
    /\ cur.kind = "Clear"
    /\ lastRun' = <<Cmd(cur, "Clear", renderer)>>
    /\ cur' = NoClosure
    /\ executed' = executed + 1
    /\ UNCHANGED <<window, renderer, err, running, fullscreen, lastFrameTime,
                   events, posted, ticks, winFullscreen>>
    /\ UNCHANGED <<execFrame, quitFrame>>

\* faulty variant of OnEvent: the f case toggles the flag but hands the old
\* value to the window
OnEventStaleFullscreen(e, st, c) ==
    LET polled == Append(st.log, Cmd(c, "PollEvent", e)) IN
    IF e = "Quit" THEN [st EXCEPT !.running = FALSE, !.log = polled]
    ELSE IF e = "KeyUpQ" THEN [st EXCEPT !.running = FALSE, !.log = polled]
    ELSE IF e = "KeyUpF" THEN
        [st EXCEPT !.fullscreen = ~st.fullscreen,
                   !.winFs = IF window = "live" THEN st.fullscreen ELSE st.winFs,
                   !.log = Append(polled, Cmd(c, "SetFullscreen", st.fullscreen))]
    ELSE [st EXCEPT !.log = polled]

\* eff.go 137-152: the type switch on one polled event.
\* st = [running, fullscreen, winFs, log]
OnEvent(e, st, c) ==
    LET polled == Append(st.log, Cmd(c, "PollEvent", e)) IN
    IF e = "Quit" THEN [st EXCEPT !.running = FALSE, !.log = polled]
    ELSE IF e = "KeyUpQ" THEN [st EXCEPT !.running = FALSE, !.log = polled]
    ELSE IF e = "KeyUpF" THEN
        [st EXCEPT !.fullscreen = ~st.fullscreen,
                   !.winFs = IF window = "live" THEN ~st.fullscreen ELSE st.winFs,
                   !.log = Append(polled, Cmd(c, "SetFullscreen", ~st.fullscreen))]
    ELSE [st EXCEPT !.log = polled]

\* eff.go 136: for event := sdl.PollEvent(); event != nil; event = sdl.PollEvent()
RECURSIVE PollLoop(_, _, _)
PollLoop(evs, st, c) ==
    IF evs = <<>> THEN st
    ELSE PollLoop(Tail(evs), OnEvent(Head(evs), st, c), c)

\* faulty variant of ExecPoll: clears without setting the draw colour
ExecPollNoBlack ==
    /\ cur.kind = "Poll"
    /\ LET st == PollLoop(events,
                          [running |-> running, fullscreen |-> fullscreen,
                           winFs |-> winFullscreen, log |-> <<>>], cur)
       IN /\ running' = st.running
          /\ fullscreen' = st.fullscreen
          /\ winFullscreen' = st.winFs
          /\ lastRun' = Append(st.log, Cmd(cur, "Clear", renderer))
    /\ events' = <<>>
    /\ quitFrame' = IF quitFrame = 0 /\ SeesQuit(events) THEN cur.frame
                     ELSE quitFrame
    /\ cur' = NoClosure
    /\ executed' = executed + 1
    /\ UNCHANGED <<window, renderer, err, lastFrameTime, posted, ticks>>
    /\ UNCHANGED execFrame

\* faulty variant of ExecPoll: the drain stops at the first quit and leaves
\* the later events in the backend's queue
ExecPollUntilQuit ==
    /\ cur.kind = "Poll"
    /\ LET n == IF SeesQuit(events)
                   THEN CHOOSE k \in 1..Len(events) :
                            /\ events[k] \in {"Quit", "KeyUpQ"}
                            /\ \A j \in 1..(k - 1) :
                                   events[j] \notin {"Quit", "KeyUpQ"}
                   ELSE Len(events)
           st == PollLoop(SubSeq(events, 1, n),
                          [running |-> running, fullscreen |-> fullscreen,
                           winFs |-> winFullscreen, log |-> <<>>], cur)
       IN /\ running' = st.running
          /\ fullscreen' = st.fullscreen
          /\ winFullscreen' = st.winFs
          /\ lastRun' = st.log \o <<Cmd(cur, "SetDrawColor", <<0, 0, 0, 255>>),
                                    Cmd(cur, "Clear", renderer)>>
          /\ events' = SubSeq(events, n + 1, Len(events))
    /\ quitFrame' = IF quitFrame = 0 /\ SeesQuit(events) THEN cur.frame
                     ELSE quitFrame
    /\ cur' = NoClosure
    /\ executed' = executed + 1
    /\ UNCHANGED <<window, renderer, err, lastFrameTime, posted, ticks>>
    /\ UNCHANGED execFrame

\* eff.go 135-157
ExecPoll ==
    /\ cur.kind = "Poll"
    /\ LET st == PollLoop(events,
                          [running |-> running, fullscreen |-> fullscreen,
                           winFs |-> winFullscreen, log |-> <<>>], cur)
       IN /\ running' = st.running
          /\ fullscreen' = st.fullscreen
          /\ winFullscreen' = st.winFs
          /\ lastRun' = st.log \o <<Cmd(cur, "SetDrawColor", <<0, 0, 0, 255>>),
                                    Cmd(cur, "Clear", renderer)>>
    /\ events' = <<>>
    /\ quitFrame' = IF quitFrame = 0 /\ SeesQuit(events) THEN cur.frame
                     ELSE quitFrame
    /\ cur' = NoClosure
    /\ executed' = executed + 1
    /\ UNCHANGED <<window, renderer, err, lastFrameTime, posted, ticks>>
    /\ UNCHANGED execFrame

\* faulty variant of FrameDelay: the test also lets a full frame time through
FrameDelayInclusive(current, last) ==
    IF ~U32Less(U32(frameTime), U32Sub(current, last))
       THEN <<U32Sub(U32(frameTime), U32Sub(current, last))>>
       ELSE <<>>

\* eff.go 167-169: the duration handed to sdl.Delay, <<>> when it is not called
FrameDelay(current, last) ==
    IF U32Less(U32Sub(current, last), U32(frameTime))
       THEN <<U32Sub(U32(frameTime), U32Sub(current, last))>>
       ELSE <<>>

\* eff.go 164-171; sdl.Delay(d) returns once d ms have passed
ExecPresent ==
    /\ cur.kind = "Present"
    /\ \E step \in TickSteps :
          LET currentFrameTime == U32Add(ticks, U32(step))
              delay == FrameDelay(currentFrameTime, lastFrameTime)
          IN /\ lastRun' =
                       <<Cmd(cur, "GetTicks", [now |-> currentFrameTime,
                                               last |-> lastFrameTime]),
                         Cmd(cur, "Present", renderer)>> \o
                       [i \in 1..Len(delay) |-> Cmd(cur, "Delay", delay[i])]
             /\ ticks' = IF delay = <<>> THEN currentFrameTime
                         ELSE U32Add(currentFrameTime, delay[1])
             /\ lastFrameTime' = currentFrameTime
    /\ cur' = NoClosure
    /\ executed' = executed + 1
    /\ UNCHANGED <<window, renderer, err, running, fullscreen, events, posted,
                   winFullscreen>>
    /\ UNCHANGED <<execFrame, quitFrame>>

\* eff.go 179-184: the four channels handed to renderer.SetDrawColor
SetColorArgs(color) ==
    <<uint8(color.R), uint8(color.G), uint8(color.B), uint8(color.A)>>

\* eff.go 186-190: the sdl.Point slice built from the caller's points
SdlPoints(points) ==
    [i \in 1..Len(points) |-> [X |-> int32(points[i].X), Y |-> int32(points[i].Y)]]

\* eff.go 178-193
ExecDrawPoints ==
    /\ cur.kind = "DrawPoints"
    /\ lastRun' =
           <<Cmd(cur, "SetDrawColor", SetColorArgs(cur.args.color)),
             Cmd(cur, "DrawPoints", SdlPoints(cur.args.points))>>
    /\ cur' = NoClosure
    /\ executed' = executed + 1
    /\ UNCHANGED <<window, renderer, err, running, fullscreen, lastFrameTime,
                   events, posted, ticks, winFullscreen>>
    /\ UNCHANGED <<execFrame, quitFrame>>

\* ------------------------------------------------------ the Run goroutine
\* what no statement executed by the Run goroutine writes
runFrame == <<width, height, window, renderer, err, cap, events, posted,
              ticks, winFullscreen, executed, lastRun, quitFrame>>
noSend == <<queue, cur, submitted>>

Call(cb) == [cb |-> cb, d |-> drawables[di], idx |-> di, frame |-> frame]

\* faulty variant of AddDrawable: a drawable already in the list is not
\* added again
AddDrawableOnce(d) ==
    /\ pc = "start"
    /\ Len(registered) < MaxDrawables
    /\ drawables' = IF \E k \in 1..Len(drawables) : drawables[k] = d
                       THEN drawables
                       ELSE Append(drawables, d)
    /\ registered' = Append(registered, d)
    /\ UNCHANGED <<running, fullscreen, lastFrameTime, pc, di, frame, ret,
                   calls>>
    /\ UNCHANGED runFrame
    /\ UNCHANGED noSend

\* eff.go 78-80
AddDrawable(d) ==
    /\ pc = "start"
    /\ Len(drawables) < MaxDrawables
    /\ drawables' = Append(drawables, d)
    /\ registered' = Append(registered, d)
    /\ UNCHANGED <<running, fullscreen, lastFrameTime, pc, di, frame, ret,
                   calls>>
    /\ UNCHANGED runFrame
    /\ UNCHANGED noSend

\* eff.go 84-94
SendCreateWindow ==
    /\ pc = "start"
    /\ Send(Closure("CreateWindow", NoArgs))
    /\ pc' = "checkWindowErr"
    /\ UNCHANGED <<registered, drawables, running, fullscreen, lastFrameTime,
                   di, frame, ret, calls>>
    /\ UNCHANGED runFrame

\* eff.go 95-99
CheckWindowErr ==
    /\ pc = "checkWindowErr"
    /\ IF err # "nil"
          THEN pc' = "done" /\ ret' = 1
          ELSE pc' = "sendCreateRenderer" /\ ret' = ret
    /\ UNCHANGED <<registered, drawables, running, fullscreen, lastFrameTime,
                   di, frame, calls>>
    /\ UNCHANGED runFrame
    /\ UNCHANGED noSend

\* eff.go 105-111
SendCreateRenderer ==
    /\ pc = "sendCreateRenderer"
    /\ Send(Closure("CreateRenderer", NoArgs))
    /\ pc' = "checkRendererErr"
    /\ UNCHANGED <<registered, drawables, running, fullscreen, lastFrameTime,
                   di, frame, ret, calls>>
    /\ UNCHANGED runFrame

\* faulty variant of CheckRendererErr: return 2 leaves without running the
\* deferred window destroy
CheckRendererErrNoDefer ==
    /\ pc = "checkRendererErr"
    /\ IF err # "nil"
          THEN pc' = "done" /\ ret' = 2
          ELSE pc' = "sendClear" /\ ret' = ret
    /\ UNCHANGED <<registered, drawables, running, fullscreen, lastFrameTime,
                   di, frame, calls>>
    /\ UNCHANGED runFrame
    /\ UNCHANGED noSend

\* eff.go 112-116; return 2 runs the deferred window destroy first
CheckRendererErr ==
    /\ pc = "checkRendererErr"
    /\ IF err # "nil"
          THEN pc' = "deferWindow" /\ ret' = 2
          ELSE pc' = "sendClear" /\ ret' = ret
    /\ UNCHANGED <<registered, drawables, running, fullscreen, lastFrameTime,
                   di, frame, calls>>
    /\ UNCHANGED runFrame
    /\ UNCHANGED noSend

\* eff.go 122-124
SendClear ==
    /\ pc = "sendClear"
    /\ Send(Closure("Clear", NoArgs))
    /\ pc' = "init"
    /\ di' = 1
    /\ UNCHANGED <<registered, drawables, running, fullscreen, lastFrameTime,
                   frame, ret, calls>>
    /\ UNCHANGED runFrame

\* faulty variant of InitCall: the loop steps over every second drawable
InitCallSkipsNext ==
    /\ pc = "init"
    /\ di <= Len(drawables)
    /\ calls' = Append(calls, Call("Init"))
    /\ di' = di + 2
    /\ UNCHANGED <<registered, drawables, running, fullscreen, lastFrameTime,
                   pc, frame, ret>>
    /\ UNCHANGED runFrame
    /\ UNCHANGED noSend

\* eff.go 127-129, one iteration
InitCall ==
    /\ pc = "init"
    /\ di <= Len(drawables)
    /\ calls' = Append(calls, Call("Init"))
    /\ di' = di + 1
    /\ UNCHANGED <<registered, drawables, running, fullscreen, lastFrameTime,
                   pc, frame, ret>>
    /\ UNCHANGED runFrame
    /\ UNCHANGED noSend

\* eff.go 131-133
EnterLoop ==
    /\ pc = "init"
    /\ di > Len(drawables)
    /\ running' = TRUE
    /\ fullscreen' = FALSE
    /\ lastFrameTime' = ticks
    /\ pc' = "loopCheck"
    /\ UNCHANGED <<registered, drawables, di, frame, ret, calls>>
    /\ UNCHANGED runFrame
    /\ UNCHANGED noSend

\* faulty variant of LoopCheck: the loop is left after its first iteration
\* whatever `running` holds
LoopCheckOneFrame ==
    /\ pc = "loopCheck"
    /\ IF running /\ frame = 0
          THEN /\ frame < MaxFrames
               /\ frame' = frame + 1
               /\ pc' = "sendPoll"
               /\ ret' = ret
          ELSE /\ pc' = "deferRenderer"
               /\ ret' = 0
               /\ frame' = frame
    /\ UNCHANGED <<registered, drawables, running, fullscreen, lastFrameTime,
                   di, calls>>
    /\ UNCHANGED runFrame
    /\ UNCHANGED noSend

\* eff.go 134 and 173: `for running`; return 0 runs the deferred calls
LoopCheck ==
    /\ pc = "loopCheck"
    /\ IF running
          THEN /\ frame < MaxFrames
               /\ frame' = frame + 1
               /\ pc' = "sendPoll"
               /\ ret' = ret
          ELSE /\ pc' = "deferRenderer"
               /\ ret' = 0
               /\ frame' = frame
    /\ UNCHANGED <<registered, drawables, running, fullscreen, lastFrameTime,
                   di, calls>>
    /\ UNCHANGED runFrame
    /\ UNCHANGED noSend

\* eff.go 135-157
SendPoll ==
    /\ pc = "sendPoll"
    /\ Send(Closure("Poll", NoArgs))
    /\ pc' = "draw"
    /\ di' = 1
    /\ UNCHANGED <<registered, drawables, running, fullscreen, lastFrameTime,
                   frame, ret, calls>>
    /\ UNCHANGED runFrame

\* a callback of drawables[di], with the DrawPoints call (eff.go 177-178) it makes
Callback(cb) ==
    /\ calls' = Append(calls, Call(cb))
    /\ LET dp == Issues(drawables[di], cb) IN
          IF dp = <<>> THEN UNCHANGED noSend
          ELSE Send(Closure("DrawPoints", dp[1]))

\* faulty variant of DrawCall: the loop body goes on to the next drawable
\* without calling Update
DrawCallWithoutUpdate ==
    /\ pc = "draw"
    /\ di <= Len(drawables)
    /\ Callback("Draw")
    /\ pc' = "draw"
    /\ di' = di + 1
    /\ UNCHANGED <<registered, drawables, running, fullscreen, lastFrameTime,
                   frame, ret>>
    /\ UNCHANGED runFrame

\* eff.go 160
DrawCall ==
    /\ pc = "draw"
    /\ di <= Len(drawables)
    /\ Callback("Draw")
    /\ pc' = "update"
    /\ UNCHANGED <<registered, drawables, running, fullscreen, lastFrameTime,
                   di, frame, ret>>
    /\ UNCHANGED runFrame

\* eff.go 161
UpdateCall ==
    /\ pc = "update"
    /\ Callback("Update")
    /\ pc' = "draw"
    /\ di' = di + 1
    /\ UNCHANGED <<registered, drawables, running, fullscreen, lastFrameTime,
                   frame, ret>>
    /\ UNCHANGED runFrame

\* eff.go 164-171
SendPresent ==
    /\ pc = "draw"
    /\ di > Len(drawables)
    /\ Send(Closure("Present", NoArgs))
    /\ pc' = "loopCheck"
    /\ UNCHANGED <<registered, drawables, running, fullscreen, lastFrameTime,
                   di, frame, ret, calls>>
    /\ UNCHANGED runFrame

\* eff.go 116-120, run on return
DeferRenderer ==
    /\ pc = "deferRenderer"
    /\ Send(Closure("DestroyRenderer", NoArgs))
    /\ pc' = "deferWindow"
    /\ UNCHANGED <<registered, drawables, running, fullscreen, lastFrameTime,
                   di, frame, ret, calls>>
    /\ UNCHANGED runFrame

\* eff.go 99-103, run on return
DeferWindow ==
    /\ pc = "deferWindow"
    /\ Send(Closure("DestroyWindow", NoArgs))
    /\ pc' = "done"
    /\ UNCHANGED <<registered, drawables, running, fullscreen, lastFrameTime,
                   di, frame, ret, calls>>
    /\ UNCHANGED runFrame

\* ---------------------------------------------------------- environment
\* the window system delivers an event to the backend's event queue.  Only
\* the poll closure reads that queue, so the deliveries are taken just before
\* it runs: an earlier delivery leaves the same queue for it to find.
PostEvent(e) ==
    /\ window = "live"
    /\ cur.kind = "Poll"
    /\ posted < MaxEvents
    /\ events' = Append(events, e)
    /\ posted' = posted + 1
    /\ UNCHANGED <<width, height, registered, drawables, window, renderer,
                   err, running, fullscreen, lastFrameTime, pc, di, frame,
                   ret, cap, queue, cur, ticks, winFullscreen, submitted,
                   executed, lastRun, quitFrame, calls>>

\* ------------------------------------------------------- specification
Init ==
    /\ width = 0
    /\ height = 0
    /\ registered = <<>>
    /\ drawables = <<>>
    /\ window = "nil"
    /\ renderer = "nil"
    /\ err = "nil"
    /\ running = TRUE
    /\ fullscreen = FALSE
    /\ lastFrameTime = U32(0)
    /\ pc = "start"
    /\ di = 1
    /\ frame = 0
    /\ ret = -1
    /\ cap \in 0..QueueCap
    /\ queue = <<>>
    /\ cur = NoClosure
    /\ events = <<>>
    /\ posted = 0
    /\ ticks \in StartTicks
    /\ winFullscreen = FALSE
    /\ submitted = <<>>
    /\ executed = 0
    /\ lastRun = <<>>
    /\ quitFrame = 0
    /\ calls = <<>>

Next ==
    \/ \E d \in DrawableIds : AddDrawable(d)
    \/ SendCreateWindow
    \/ CheckWindowErr
    \/ SendCreateRenderer
    \/ CheckRendererErr
    \/ SendClear
    \/ InitCall
    \/ EnterLoop
    \/ LoopCheck
    \/ SendPoll
    \/ DrawCall
    \/ UpdateCall
    \/ SendPresent
    \/ DeferRenderer
    \/ DeferWindow
    \/ Receive
    \/ ExecCreateWindow
    \/ ExecCreateRenderer
    \/ ExecDestroyWindow
    \/ ExecDestroyRenderer
    \/ ExecClear
    \/ ExecPoll
    \/ ExecPresent
    \/ ExecDrawPoints
    \/ \E e \in EventKinds : PostEvent(e)

Spec == Init /\ [][Next]_vars

\* the caller also sets the canvas size before it calls Run; the window
\* system delivers the events that end the loop
SizedNext ==
    \/ \E w \in Widths : SetWidth(w)
    \/ \E h \in Heights : SetHeight(h)
    \/ \E d \in DrawableIds : AddDrawable(d)
    \/ SendCreateWindow
    \/ CheckWindowErr
    \/ SendCreateRenderer
    \/ CheckRendererErr
    \/ SendClear
    \/ InitCall
    \/ EnterLoop
    \/ LoopCheck
    \/ SendPoll
    \/ DrawCall
    \/ UpdateCall
    \/ SendPresent
    \/ DeferRenderer
    \/ DeferWindow
    \/ Receive
    \/ ExecCreateWindow
    \/ ExecCreateRenderer
    \/ ExecDestroyWindow
    \/ ExecDestroyRenderer
    \/ ExecClear
    \/ ExecPoll
    \/ ExecPresent
    \/ ExecDrawPoints
    \/ \E e \in {"Quit", "KeyUpQ"} : PostEvent(e)

SizedSpec == Init /\ [][SizedNext]_vars

\* ------------------------------------------------------------ properties
NumDrawables == Len(drawables)

\* Run has left the Init loop of eff.go 127-129
InitLoopLeft ==
    \/ pc \in {"loopCheck", "sendPoll", "draw", "update", "deferRenderer"}
    \/ (pc \in {"deferWindow", "done"} /\ ret = 0)

\* Run is between two iterations of `for running`, or has left the loop
BetweenFrames ==
    \/ pc \in {"loopCheck", "deferRenderer"}
    \/ (pc \in {"deferWindow", "done"} /\ ret = 0)

\* the executor has run a closure of that kind
Executed(kind) == \E k \in 1..executed : submitted[k].kind = kind

Submitted(kind) == \E k \in 1..Len(submitted) : submitted[k].kind = kind

NumSubmitted(kind) ==
    Cardinality({k \in 1..Len(submitted) : submitted[k].kind = kind})

\* the closures the executor has not run yet: the one it holds, then the buffer
Pending == IF cur = NoClosure THEN queue ELSE <<cur>> \o queue

\* C1: Run calls Init on every entry of the drawable list exactly once, in
\* registration order, and every Init precedes the first Draw or Update.
C1_InitOnceInOrderFirst ==
    /\ \A k \in 1..Len(calls) :
          IF k <= NumDrawables
             THEN calls[k] = [cb |-> "Init", d |-> drawables[k], idx |-> k,
                              frame |-> 0]
             ELSE calls[k].cb \in {"Draw", "Update"}
    /\ InitLoopLeft => Len(calls) >= NumDrawables

C1_Witness ==
    /\ pc = "done" /\ ret = 0
    /\ drawables = <<"a", "b">>
    /\ Len(calls) > 2
    /\ calls[1].cb = "Init" /\ calls[2].cb = "Init" /\ calls[3].cb = "Draw"

\* C2: in every frame the callbacks are Draw_1, Update_1, Draw_2, Update_2,
\* ... in registration order, one Draw and one Update per drawable.
C2_DrawUpdateInterleaved ==
    /\ \A k \in (NumDrawables + 1)..Len(calls) :
          LET j == k - NumDrawables - 1
              i == ((j \div 2) % NumDrawables) + 1
          IN calls[k] = [cb |-> IF j % 2 = 0 THEN "Draw" ELSE "Update",
                         d |-> drawables[i], idx |-> i,
                         frame |-> (j \div (2 * NumDrawables)) + 1]
    /\ BetweenFrames => Len(calls) = NumDrawables + 2 * NumDrawables * frame

C2_Witness ==
    /\ pc = "loopCheck" /\ frame = 2
    /\ drawables = <<"b", "a">>
    /\ Len(calls) = 10
    /\ calls[7].cb = "Draw" /\ calls[7].d = "b" /\ calls[7].frame = 2
    /\ calls[10].cb = "Update" /\ calls[10].d = "a"

\* the backend reported an error for the window (only ExecCreateWindow sets
\* window, and it leaves "nil" exactly when the creation failed)
WindowFailed == Executed("CreateWindow") /\ window = "nil"

\* the backend reported an error for the renderer of a window it had created
RendererFailed ==
    /\ Executed("CreateRenderer")
    /\ window # "nil"
    /\ renderer = "nil"

\* C3: when window creation reports an error Run returns 1, no renderer
\* creation is submitted or executed, and no drawable is called.
C3_WindowFailure ==
    WindowFailed =>
        /\ ret \in {-1, 1}
        /\ ~Submitted("CreateRenderer")
        /\ calls = <<>>

\* C4: when the window is created and renderer creation reports an error Run
\* returns 2, the window's destroy is executed, and no drawable is called.
C4_RendererFailure ==
    RendererFailed =>
        /\ ret \in {-1, 2}
        /\ calls = <<>>
        /\ (pc = "done" /\ Pending = <<>>) => window = "destroyed"

\* C5: a quit event or q key-up polled during frame K lets frame K finish
\* (every Draw/Update, the present), and the next loop check leaves the loop:
\* no frame K+1 is started, and Run returns 0.
C5_QuitEndsAfterFrame ==
    quitFrame # 0 =>
        /\ frame <= quitFrame
        /\ \A k \in 1..Len(calls) : calls[k].frame <= quitFrame
        /\ ret \in {-1, 0}
        /\ pc = "done" =>
              /\ Len(calls) = NumDrawables + 2 * NumDrawables * quitFrame
              /\ \E k \in 1..Len(submitted) :
                    /\ submitted[k].kind = "Present"
                    /\ submitted[k].frame = quitFrame

\* C6: Run reads err at each error check only after the executor has run the
\* corresponding creation closure.
C6_ErrReadAfterWrite ==
    [][/\ (pc = "checkWindowErr" /\ pc' # pc) => Executed("CreateWindow")
       /\ (pc = "checkRendererErr" /\ pc' # pc) => Executed("CreateRenderer")]_vars

\* C7: at most one window and one renderer are created, and when Run returns
\* everything created has been destroyed by the backend.
C7_ReleasedBeforeReturn ==
    /\ NumSubmitted("CreateWindow") <= 1
    /\ NumSubmitted("CreateRenderer") <= 1
    /\ pc = "done" => (window # "live" /\ renderer # "live")

\* position of a closure inside one iteration of the loop of eff.go 134-172
FrameRank(kind) ==
    IF kind = "Poll" THEN 1
    ELSE IF kind = "DrawPoints" THEN 2
    ELSE IF kind = "Present" THEN 3
    ELSE 4

\* the backend calls one closure must make, given the calls it has made
ClosureShape(c, cmds) ==
    IF c.kind = "Poll" THEN
        /\ Len(cmds) >= 2
        /\ cmds[Len(cmds) - 1].cmd = "SetDrawColor"
        /\ cmds[Len(cmds) - 1].arg = <<0, 0, 0, 255>>
        /\ cmds[Len(cmds)].cmd = "Clear"
        /\ \A k \in 1..(Len(cmds) - 2) :
              cmds[k].cmd \in {"PollEvent", "SetFullscreen"}
    ELSE IF c.kind = "DrawPoints" THEN
        /\ Len(cmds) = 2
        /\ cmds[1].cmd = "SetDrawColor"
        /\ cmds[2].cmd = "DrawPoints"
        /\ cmds[2].arg = SdlPoints(c.args.points)
    ELSE IF c.kind = "Present" THEN
        /\ Len(cmds) \in {2, 3}
        /\ cmds[1].cmd = "GetTicks"
        /\ cmds[2].cmd = "Present"
        /\ Len(cmds) = 3 => cmds[3].cmd = "Delay"
    ELSE Len(cmds) = 1 /\ cmds[1].cmd = c.kind

\* C8: closures run in the order they were submitted; in each frame the
\* backend sees the event poll, the clear to opaque black, the point draws in
\* issue order, then the present; frame K's commands all precede frame K+1's.
C8_BackendOrder ==
    \* the n-th closure run is the n-th closure submitted, none is skipped
    /\ executed + Len(Pending) = Len(submitted)
    /\ \A k \in 1..Len(Pending) : Pending[k] = submitted[executed + k]
    /\ \A k \in 1..Len(lastRun) : lastRun[k].seq = executed
    /\ executed > 0 => ClosureShape(submitted[executed], lastRun)
    \* and the submissions are, frame after frame, poll, point draws, present
    /\ \A k \in 1..Len(submitted) : submitted[k].seq = k
    /\ \A k \in 1..(Len(submitted) - 1) :
          /\ submitted[k].frame <= submitted[k + 1].frame
          /\ submitted[k].frame < submitted[k + 1].frame =>
                submitted[k + 1].kind = "Poll"
          /\ (submitted[k].frame = submitted[k + 1].frame
                 /\ submitted[k + 1].kind \in {"Poll", "DrawPoints", "Present"}) =>
                \/ FrameRank(submitted[k].kind) < FrameRank(submitted[k + 1].kind)
                \/ (submitted[k].kind = "DrawPoints"
                       /\ submitted[k + 1].kind = "DrawPoints")

C8_Witness ==
    /\ cap = 1
    /\ drawables = <<"a", "b">>
    /\ executed = 11
    /\ submitted[executed].kind = "Present"
    /\ submitted[executed].frame = 2
    /\ submitted[executed - 1].kind = "DrawPoints"
    /\ submitted[executed - 2].kind = "DrawPoints"
    /\ submitted[executed - 3].kind = "Poll"
    /\ submitted[executed - 4].kind = "Present"
    /\ Len(lastRun) = 3

NumKeyUpF(evs) == Cardinality({k \in 1..Len(evs) : evs[k] = "KeyUpF"})

\* C9: every polled key-up of f flips the fullscreen flag once and applies the
\* new value to the window in the same poll step (right after the event is
\* polled); such an event leaves the running flag as it was.
C9_ToggleFullscreen ==
    [][(cur.kind = "Poll" /\ cur' = NoClosure) =>
          /\ fullscreen' = (IF NumKeyUpF(events) % 2 = 1 THEN ~fullscreen
                            ELSE fullscreen)
          /\ winFullscreen' = fullscreen'
          /\ running' = (running /\ ~SeesQuit(events))
          /\ \A k \in 1..Len(lastRun') :
                /\ (lastRun'[k].cmd = "PollEvent" /\ lastRun'[k].arg = "KeyUpF") =>
                      /\ lastRun'[k + 1].cmd = "SetFullscreen"
                      /\ lastRun'[k + 1].arg =
                            (IF NumKeyUpF(SubSeq(events, 1,
                                   Cardinality({m \in 1..k :
                                       lastRun'[m].cmd = "PollEvent"}))) % 2 = 1
                                THEN ~fullscreen ELSE fullscreen)
                /\ lastRun'[k].cmd = "SetFullscreen" =>
                      /\ k > 1
                      /\ lastRun'[k - 1].cmd = "PollEvent"
                      /\ lastRun'[k - 1].arg = "KeyUpF"
                /\ lastRun'[k].cmd = "PollEvent" =>
                      lastRun'[k].arg =
                          events[Cardinality({m \in 1..k :
                                     lastRun'[m].cmd = "PollEvent"})]
       ]_vars

C9_Witness ==
    /\ Len(lastRun) = 6
    /\ lastRun[1].cmd = "PollEvent" /\ lastRun[1].arg = "KeyUpF"
    /\ lastRun[2].cmd = "SetFullscreen" /\ lastRun[2].arg = TRUE
    /\ lastRun[3].cmd = "PollEvent" /\ lastRun[3].arg = "KeyUpF"
    /\ lastRun[4].cmd = "SetFullscreen" /\ lastRun[4].arg = FALSE
    /\ running
    /\ ~winFullscreen

\* C10: with elapsed = tick at present - last timestamp, the present closure
\* delays exactly 11 - elapsed ms when elapsed < 11 and not at all otherwise,
\* and the timestamp it records is the time at which the frame's blocking
\* ended, so that the next elapsed covers the next frame's work only.
C10_FramePacing ==
    (executed > 0 /\ submitted[executed].kind = "Present") =>
        LET elapsed == U32Sub(lastRun[1].arg.now, lastRun[1].arg.last) IN
        /\ lastRun[1].cmd = "GetTicks"
        /\ lastRun[2].cmd = "Present"
        /\ IF elapsed.hi = 0 /\ elapsed.lo < 11
              THEN /\ Len(lastRun) = 3
                   /\ lastRun[3].cmd = "Delay"
                   /\ lastRun[3].arg = U32(11 - elapsed.lo)
              ELSE Len(lastRun) = 2
        /\ lastFrameTime = ticks

\* the closure the executor ran last (closures run in the order they were sent)
LastExecuted == IF executed = 0 THEN NoClosure ELSE submitted[executed]

\* C11: a DrawPoints call with an empty point set makes no backend call:
\* its closure reaches the renderer with neither a set-colour nor a point-draw.
C11_EmptyPointsNoBackendCall ==
    (LastExecuted.kind = "DrawPoints" /\ LastExecuted.args.points = <<>>)
        => lastRun = <<>>

\* Run has returned and the executor has run every closure Run sent
Settled == pc = "done" /\ Pending = <<>>

\* C12: Run returns only 0, 1 or 2: 1 exactly when the window creation failed,
\* 2 exactly when the window was created and the renderer creation failed,
\* and 0 only when both were created and a quit was polled.
C12_ReturnCodes ==
    /\ ret \in {-1, 0, 1, 2}
    /\ Settled =>
          /\ (ret = 1) <=> WindowFailed
          /\ (ret = 2) <=> RendererFailed
          /\ (ret = 0) => /\ window # "nil"
                          /\ renderer # "nil"
                          /\ quitFrame # 0

\* C14: Init is not called on any drawable before the window creation closure
\* and the renderer creation closure have both finished on the executor.
C14_InitAfterCreation ==
    calls # <<>> => (Executed("CreateWindow") /\ Executed("CreateRenderer"))

\* ------------------------------------------------------------- fairness
\* the statements of the Run goroutine, once Run has been called
RunStep ==
    \/ SendCreateWindow \/ CheckWindowErr \/ SendCreateRenderer
    \/ CheckRendererErr \/ SendClear \/ InitCall \/ EnterLoop \/ LoopCheck
    \/ SendPoll \/ DrawCall \/ UpdateCall \/ SendPresent \/ DeferRenderer
    \/ DeferWindow

\* the steps of the goroutine that serves sdl.CallQueue
ExecStep ==
    \/ Receive \/ ExecCreateWindow \/ ExecCreateRenderer \/ ExecDestroyWindow
    \/ ExecDestroyRenderer \/ ExecClear \/ ExecPoll \/ ExecPresent
    \/ ExecDrawPoints

\* The Go scheduler runs every goroutine that can take a step, and a
\* goroutine blocked on a channel send stays ready once the send can proceed;
\* drawable callbacks and backend calls return.
FairSpec == Spec /\ WF_vars(RunStep) /\ WF_vars(ExecStep)

\* both backend resources have been created
BothCreated == window # "nil" /\ renderer # "nil"

\* a quit event or a quit-key key-up is waiting in the backend's event queue
QuitDelivered == SeesQuit(events)

\* C13: once the window and the renderer exist Run returns only after a poll
\* closure has polled a quit event or a quit-key key-up (its only exit, with
\* status 0), and a delivered quit leads to Run returning 0.
C13_QuitEndsRun ==
    /\ [](~running => quitFrame # 0)
    /\ []((BothCreated /\ ret # -1) => (ret = 0 /\ quitFrame # 0))
    /\ ((BothCreated /\ QuitDelivered) ~> (pc = "done" /\ ret = 0))

C13_Witness ==
    /\ Settled /\ ret = 0
    /\ window = "destroyed" /\ renderer = "destroyed"
    /\ quitFrame = 2
    /\ LastExecuted.kind = "DestroyWindow"

\* number of callbacks cb made so far on drawable d
NumCalls(cb, d) ==
    Cardinality({k \in 1..Len(calls) : calls[k].cb = cb /\ calls[k].d = d})

\* number of AddDrawable calls made with drawable d
NumRegistered(d) ==
    Cardinality({k \in 1..Len(registered) : registered[k] = d})

\* C15: the drawable list is the sequence of AddDrawable arguments in call
\* order, duplicates kept (a drawable registered twice is drawn and updated
\* twice per frame), and no other operation changes the list.
C15_ListIsCallSequence ==
    /\ drawables = registered
    /\ BetweenFrames =>
          \A d \in DrawableIds :
              /\ NumCalls("Draw", d) = frame * NumRegistered(d)
              /\ NumCalls("Update", d) = frame * NumRegistered(d)

C15_Witness ==
    /\ width = 640 /\ height = 480
    /\ registered = <<"a", "a">>
    /\ pc = "done" /\ ret = 0 /\ frame = 2
    /\ NumCalls("Draw", "a") = 4
    /\ Submitted("DrawPoints")

\* the channels of a colour, in the order renderer.SetDrawColor takes them
Channels(color) == <<color.R, color.G, color.B, color.A>>

\* the backend calls of the closure run last are those of one DrawPoints call:
\* one set-colour, then one point-draw of all the caller's points
OneColourAllPoints ==
    /\ Len(lastRun) = 2
    /\ lastRun[1].cmd = "SetDrawColor"
    /\ lastRun[2].cmd = "DrawPoints"
    /\ Len(lastRun[2].arg) = Len(LastExecuted.args.points)
    /\ \A i \in 1..Len(lastRun[2].arg) :
          /\ lastRun[2].arg[i].X = LastExecuted.args.points[i].X
          /\ lastRun[2].arg[i].Y = LastExecuted.args.points[i].Y

\* C16 as stated: DrawPoints hands every colour channel to the backend's
\* set-colour unchanged, also outside 0..255, and draws every point with that
\* single colour.
C16_ChannelsUnchanged ==
    LastExecuted.kind = "DrawPoints" =>
        /\ OneColourAllPoints
        /\ lastRun[1].arg = Channels(LastExecuted.args.color)

\* C16 amended: DrawPoints does not validate the channels; each reaches the
\* backend's set-colour as its low 8 bits (the value modulo 256, so unchanged
\* inside 0..255), and every point is drawn with that single colour.
C16_ChannelsLow8Bits ==
    LastExecuted.kind = "DrawPoints" =>
        /\ OneColourAllPoints
        /\ \A i \in 1..4 :
              LET given == Channels(LastExecuted.args.color)[i]
                  handed == lastRun[1].arg[i]
              IN /\ handed \in 0..255
                 /\ (handed - given) % 256 = 0
                 /\ given \in 0..255 => handed = given

C16_Witness ==
    /\ LastExecuted.kind = "DrawPoints"
    /\ LastExecuted.args.color = [R |-> 255, G |-> 0, B |-> 256, A |-> -1]
    /\ lastRun[1].arg = <<255, 0, 0, 255>>
    /\ Len(lastRun[2].arg) = 2

IsPollEvent(c) == c.cmd = "PollEvent"

IsSetFullscreen(c) == c.cmd = "SetFullscreen"

\* C17: the poll closure of a frame drains the backend's whole event queue
\* before it clears (the queue is empty at the clear), and a quit does not
\* end the drain: a toggle-fullscreen key-up behind it is still applied.
C17_DrainsWholeQueue ==
    [][(cur.kind = "Poll" /\ cur' = NoClosure) =>
          LET polled == SelectSeq(lastRun', IsPollEvent)
              toggles == SelectSeq(lastRun', IsSetFullscreen)
          IN /\ events' = <<>>
             /\ Len(polled) = Len(events)
             /\ \A k \in 1..Len(events) : polled[k].arg = events[k]
             /\ lastRun'[Len(lastRun')].cmd = "Clear"
             /\ Len(toggles) = NumKeyUpF(events)
             /\ (fullscreen' # fullscreen) <=> (NumKeyUpF(events) % 2 = 1)]_vars

C17_Witness ==
    /\ LastExecuted.kind = "Poll"
    /\ Len(lastRun) = 5
    /\ lastRun[1].cmd = "PollEvent" /\ lastRun[1].arg = "Quit"
    /\ lastRun[2].cmd = "PollEvent" /\ lastRun[2].arg = "KeyUpF"
    /\ lastRun[3].cmd = "SetFullscreen" /\ lastRun[3].arg = TRUE
    /\ ~running /\ fullscreen /\ winFullscreen
    /\ events = <<>>

\* C18: every delay the present closure requests is between 1 and 11 ms and is
\* requested only when the tick counter moved on by less than 11 ms since the
\* last frame's reading, counted modulo 2^32; it is 11 minus that advance, so
\* the subtraction never goes below zero, also across the counter's wraparound.
C18_DelayInRange ==
    LastExecuted.kind = "Present" =>
        \A k \in 1..Len(lastRun) :
            lastRun[k].cmd = "Delay" =>
                /\ lastRun[k].arg.hi = 0
                /\ lastRun[k].arg.lo >= 1
                /\ lastRun[k].arg.lo <= 11
                /\ \E e \in 0..10 :
                      /\ U32Add(lastRun[1].arg.last, U32(e)) = lastRun[1].arg.now
                      /\ lastRun[k].arg.lo = 11 - e

C18_Witness ==
    /\ LastExecuted.kind = "Present"
    /\ Len(lastRun) = 3
    /\ lastRun[1].arg.last = [hi |-> Half - 1, lo |-> Half - 2]
    /\ lastRun[1].arg.now = [hi |-> 0, lo |-> 5]
    /\ lastRun[3].cmd = "Delay"
    /\ lastRun[3].arg = [hi |-> 0, lo |-> 4]

\* the kinds of the closures Run has sent, in order
SubmittedKinds == [k \in 1..Len(submitted) |-> submitted[k].kind]

\* C19: when Run returns 0 it has sent the renderer's destroy and then the
\* window's destroy, once each, both after the present of the last frame;
\* when it returns 2 it has sent only the window's destroy; when it returns 1
\* it has sent no destroy.  Before its return statement it has sent neither.
C19_DestroyOrder ==
    LET n == Len(submitted) IN
    /\ ret = -1 => (~Submitted("DestroyRenderer") /\ ~Submitted("DestroyWindow"))
    /\ ret = 1 => (~Submitted("DestroyRenderer") /\ ~Submitted("DestroyWindow"))
    /\ (ret = 2 /\ pc = "done") =>
          /\ NumSubmitted("DestroyWindow") = 1
          /\ SubmittedKinds[n] = "DestroyWindow"
          /\ ~Submitted("DestroyRenderer")
    /\ (ret = 0 /\ pc = "done") =>
          /\ n >= 3
          /\ SubmittedKinds[n] = "DestroyWindow"
          /\ SubmittedKinds[n - 1] = "DestroyRenderer"
          /\ SubmittedKinds[n - 2] = "Present"
          /\ submitted[n - 2].frame = frame
          /\ NumSubmitted("DestroyWindow") = 1
          /\ NumSubmitted("DestroyRenderer") = 1
          /\ NumSubmitted("Present") = frame

C19_Witness ==
    /\ pc = "done" /\ ret = 0 /\ frame = 2
    /\ cur.kind = "DestroyRenderer"
    /\ Len(queue) = 1 /\ queue[1].kind = "DestroyWindow"
    /\ NumSubmitted("Present") = 2

====
